---- MODULE Spec2Model ----
(***************************************************************************)
(* Model of pro_options_dashboard_with_breakout_screener.py.               *)
(*                                                                         *)
(* The script runs top to bottom on every refresh: load_fno_symbols,       *)
(* validate_symbols, get_breakout_screener, the top_breakouts view and the *)
(* option_screener loop.  Each stage is modelled by its own specification  *)
(* over the shared variables below:                                        *)
(*   SpecLoad      load_fno_symbols                                        *)
(*   SpecValidate  validate_symbols and the persisted backup file,         *)
(*                 over repeated refresh cycles                            *)
(*   SpecScreen    get_breakout_screener and the top_breakouts view        *)
(*   SpecOptions   the option_screener loop                                *)
(*                                                                         *)
(* The st.cache_data(ttl=300) decorators belong to the UI framework and    *)
(* are not modelled: every action is one execution of a function body.     *)
(***************************************************************************)
EXTENDS Integers, Sequences, FiniteSets

VARIABLES
    \* ---- load_fno_symbols
    csv,             \* nse_fno_list.csv as found on disk
    lpc,             \* "start" | "returned" | "stopped"
    clean_symbols,   \* the list load_fno_symbols returns
    \* ---- validate_symbols
    symbols,         \* the candidate list passed in
    backup_file,     \* validated_symbols.csv: [kind, rows]
    vpc,             \* "idle" | "call" | "pause" | "write" | "returned"
    idx,             \* position of the for loop in symbols
    retries,         \* local retries
    curr_delay,      \* local curr_delay, in units of 1/8 ms
    valid_symbols,   \* local valid_symbols
    returned,        \* the value validate_symbols returned
    responses,       \* history: provider responses for symbols[idx] in this pass
    sleeps,          \* history: backoff sleeps for symbols[idx] in this pass
    pauses,          \* history: inter-symbol pauses taken in this pass
    queried,         \* history: symbols the provider was called for in this pass
    provided,        \* history: symbols the provider returned rows for in this pass
    retried,         \* history: [symbol, responses, sleeps] of symbols that succeeded after rate limits
    fileAtStart,     \* history: backup_file when this pass started
    write_result,    \* history: "none" | "skipped" | "ok" | "failed" (lines 93-98)
    \* ---- get_breakout_screener and top_breakouts
    spc,             \* "idle" | "fetch" | "screened" | "top"
    sidx,            \* position of the for loop in symbols
    breakout_data,   \* local breakout_data, then screener_df
    top_breakouts,   \* the top_breakouts view
    hist_lens,       \* history: rows fetched for each symbol so far (-1: the provider raised)
    row_src,         \* history: position in symbols each row of breakout_data came from
    \* ---- option_screener
    opc,             \* "idle" | "loop" | "done"
    oidx,            \* position of the for loop in top_breakouts
    option_screener  \* the list option_screener

vvars == <<symbols, backup_file, vpc, idx, retries, curr_delay, valid_symbols,
           returned, responses, sleeps, pauses, queried, provided, retried,
           fileAtStart, write_result>>
lvars == <<csv, lpc, clean_symbols>>
svars == <<spc, sidx, breakout_data, top_breakouts, hist_lens, row_src>>
ovars == <<opc, oidx, option_screener>>
vars == <<lvars, vvars, svars, ovars>>

(***************************************************************************)
(* Generic helpers                                                         *)
(***************************************************************************)
Range(s) == {s[i] : i \in 1..Len(s)}

SeqsUpTo(S, n) == UNION {[1..k -> S] : k \in 0..n}

\* pandas Series.unique(): first occurrences, in order of appearance
RECURSIVE Unique(_)
Unique(s) ==
    IF s = <<>> THEN <<>>
    ELSE LET init == Unique(SubSeq(s, 1, Len(s) - 1))
             last == s[Len(s)]
         IN IF last \in Range(init) THEN init ELSE Append(init, last)

(***************************************************************************)
(* load_fno_symbols                                                        *)
(*                                                                         *)
(* A symbol is a sequence of one-character strings.  An empty cell of the  *)
(* SYMBOL column, which read_csv reads as NaN, is the empty sequence.      *)
(***************************************************************************)
\* bounds of the model
MaxColumn == 2       \* rows of the SYMBOL column
MaxLen == 2          \* characters of a raw entry

Upper == {"A", "B", "C", "D", "E", "F", "G", "H", "I", "J", "K", "L", "M",
          "N", "O", "P", "Q", "R", "S", "T", "U", "V", "W", "X", "Y", "Z"}
Lower == {"a", "b", "c", "d", "e", "f", "g", "h", "i", "j", "k", "l", "m",
          "n", "o", "p", "q", "r", "s", "t", "u", "v", "w", "x", "y", "z"}
Digits == {"0", "1", "2", "3", "4", "5", "6", "7", "8", "9"}

\* the characters raw entries are drawn from: as in M&M, m&m, M5
Alphabet == {"M", "m", "5", "&"}
NaN == <<>>
Entries == SeqsUpTo(Alphabet, MaxLen)

\* Series.dropna()
RECURSIVE DropNa(_)
DropNa(s) ==
    IF s = <<>> THEN <<>>
    ELSE IF s[1] = NaN THEN DropNa(Tail(s))
    ELSE <<s[1]>> \o DropNa(Tail(s))

\* the class [A-Za-z0-9] of line 41
Alnum(c) == c \in Upper \cup Lower \cup Digits

\* re.sub(r'[^A-Za-z0-9]', '', sym)
RECURSIVE ReSub(_)
ReSub(sym) ==
    IF sym = <<>> THEN <<>>
    ELSE IF Alnum(sym[1]) THEN <<sym[1]>> \o ReSub(Tail(sym))
    ELSE ReSub(Tail(sym))

\* lines 39-43: clean each symbol, keep the non-empty ones
RECURSIVE CleanSymbols(_)
CleanSymbols(syms) ==
    IF syms = <<>> THEN <<>>
    ELSE LET sym == ReSub(syms[1])
         IN IF sym # <<>> THEN <<sym>> \o CleanSymbols(Tail(syms))
            ELSE CleanSymbols(Tail(syms))

\* line 36 then lines 39-44
LoadedSymbols(column) == CleanSymbols(Unique(DropNa(column)))

CsvStates ==
    {[kind |-> k, column |-> <<>>] : k \in {"missing", "no_column", "unparsable"}}
    \cup {[kind |-> "ok", column |-> c] : c \in SeqsUpTo(Entries, MaxColumn)}

\* load_fno_symbols (29-50): returns the cleaned list, or st.stop() ends the run
LoadFnoSymbols ==
    /\ lpc = "start"
    /\ IF csv.kind = "ok"
       THEN /\ clean_symbols' = LoadedSymbols(csv.column)
            /\ lpc' = "returned"
       ELSE /\ clean_symbols' = clean_symbols
            /\ lpc' = "stopped"
    /\ UNCHANGED <<csv, vvars, svars, ovars>>

(***************************************************************************)
(* validate_symbols                                                        *)
(***************************************************************************)
\* bounds of the model
MaxSymbols == 2      \* longest candidate list
MaxCalls == 4        \* provider calls explored per symbol

\* defaults of validate_symbols(symbols, max_retries=3, delay=0.75, ...)
max_retries == 3
delay == 6000        \* 0.75 s in units of 1/8 ms

Tickers == {"TCS", "INFY"}
CandidateLists == SeqsUpTo(Tickers, MaxSymbols)

\* what ticker.history(period="1d") can do
Responses == {"rows", "empty", "rate_limit", "error"}

NoFile == [kind |-> "absent", rows |-> <<>>]
BadFile == [kind |-> "unreadable", rows |-> <<>>]
CsvFile(rows) == [kind |-> "ok", rows |-> rows]

\* os.path.exists(backup_file)
Exists(f) == f.kind # "absent"

\* pd.read_csv(backup_file) and cached['SYMBOL'] succeed
Loads(f) == f.kind = "ok"

\* variant: the persisted file is never used
UseCache_never(f) == FALSE
\* lines 56-63: the cached branch returns only if the file exists and loads
UseCache(f) == Exists(f) /\ Loads(f)

\* cached['SYMBOL'].dropna().unique().tolist()
CachedSymbols(f) == Unique(f.rows)

\* variant: curr_delay *= 2
NextDelay_double(d) == d * 2
\* curr_delay *= 1.5
NextDelay(d) == (d * 3) \div 2

\* variant: the symbol is appended whenever history() returns, rows or not
KeepsSymbol_always(r) == r \in {"rows", "empty"}
\* if not hist.empty: valid_symbols.append(symbol)
KeepsSymbol(r) == r = "rows"

\* variant: the file is written whatever the result
ShouldWrite_always(v) == TRUE
\* if valid_symbols:
ShouldWrite(v) == v # <<>>

InitValidate ==
    /\ csv = [kind |-> "ok", column |-> <<>>]
    /\ lpc = "idle"
    /\ clean_symbols = <<>>
    /\ write_result = "none"
    /\ symbols \in CandidateLists
    /\ backup_file = NoFile
    /\ vpc = "idle"
    /\ idx = 0
    /\ retries = 0
    /\ curr_delay = delay
    /\ valid_symbols = <<>>
    /\ returned = <<>>
    /\ responses = <<>>
    /\ sleeps = <<>>
    /\ pauses = 0
    /\ queried = {}
    /\ provided = {}
    /\ retried = {}
    /\ fileAtStart = NoFile
    /\ spc = "idle"
    /\ sidx = 0
    /\ breakout_data = <<>>
    /\ top_breakouts = <<>>
    /\ hist_lens = <<>>
    /\ row_src = <<>>
    /\ opc = "idle"
    /\ oidx = 0
    /\ option_screener = <<>>

\* lines 56-66 and the entry of the for loop (68-71)
ValidateStart ==
    /\ vpc = "idle"
    /\ fileAtStart' = backup_file
    /\ queried' = {}
    /\ provided' = {}
    /\ retried' = {}
    /\ pauses' = 0
    /\ responses' = <<>>
    /\ sleeps' = <<>>
    /\ retries' = 0
    /\ curr_delay' = delay
    /\ valid_symbols' = <<>>
    /\ write_result' = "none"
    /\ IF UseCache(backup_file)
       THEN /\ returned' = CachedSymbols(backup_file)
            /\ vpc' = "returned"
            /\ idx' = 0
       ELSE /\ returned' = <<>>
            /\ idx' = 1
            /\ vpc' = IF symbols = <<>> THEN "write" ELSE "call"
    /\ UNCHANGED <<symbols, backup_file, lvars, svars, ovars>>

\* one iteration of the while loop (73-89): the provider answers r
ProviderCall(r) ==
    /\ vpc = "call"
    /\ Len(responses) < MaxCalls
    /\ responses' = Append(responses, r)
    /\ queried' = queried \cup {symbols[idx]}
    /\ provided' = IF r = "rows" THEN provided \cup {symbols[idx]} ELSE provided
    /\ valid_symbols' = IF KeepsSymbol(r) THEN Append(valid_symbols, symbols[idx])
                        ELSE valid_symbols
    /\ sleeps' = IF r = "rate_limit" THEN Append(sleeps, curr_delay) ELSE sleeps
    /\ curr_delay' = IF r = "rate_limit" THEN NextDelay(curr_delay) ELSE curr_delay
    /\ retries' = IF r = "rate_limit" THEN retries + 1 ELSE retries
    /\ retried' = IF r = "rows" /\ retries > 0
                  THEN retried \cup {[symbol |-> symbols[idx],
                                      responses |-> responses',
                                      sleeps |-> sleeps]}
                  ELSE retried
    /\ vpc' = CASE KeepsSymbol(r) -> "pause"                      \* break (80)
                [] r = "error" -> "pause"                         \* break (89)
                [] r = "rate_limit" /\ retries + 1 >= max_retries -> "pause"
                [] OTHER -> "call"                                \* loop again
    /\ UNCHANGED <<symbols, backup_file, idx, returned, pauses, fileAtStart,
                   write_result, lvars,
                   svars, ovars>>

\* time.sleep(random.uniform(0.5, 1.0)) and the next symbol (91, 68-71)
NextSymbol ==
    /\ vpc = "pause"
    /\ pauses' = pauses + 1
    /\ idx' = idx + 1
    /\ retries' = 0
    /\ curr_delay' = delay
    /\ responses' = <<>>
    /\ sleeps' = <<>>
    /\ vpc' = IF idx = Len(symbols) THEN "write" ELSE "call"
    /\ UNCHANGED <<symbols, backup_file, valid_symbols, returned, queried,
                   provided, retried, fileAtStart, write_result, lvars,
                   svars, ovars>>

\* to_csv raised (97-98): the file was not opened, or was left truncated
FailedWrite(f) == {f, BadFile}

\* lines 93-100
WriteAndReturn ==
    /\ vpc = "write"
    /\ returned' = valid_symbols
    /\ vpc' = "returned"
    /\ IF ShouldWrite(valid_symbols)
       THEN \/ /\ backup_file' = CsvFile(valid_symbols)
               /\ write_result' = "ok"
            \/ /\ backup_file' \in FailedWrite(backup_file)
               /\ write_result' = "failed"
       ELSE /\ backup_file' = backup_file
            /\ write_result' = "skipped"
    /\ UNCHANGED <<symbols, idx, retries, curr_delay, valid_symbols, responses,
                   sleeps, pauses, queried, provided, retried, fileAtStart, lvars,
                   svars, ovars>>

\* the script is run again from scratch: only the persisted file survives,
\* and symbols = load_fno_symbols() is evaluated anew (178-179)
Rerun ==
    /\ vpc = "returned"
    /\ vpc' = "idle"
    /\ symbols' \in CandidateLists
    /\ idx' = 0
    /\ retries' = 0
    /\ curr_delay' = delay
    /\ valid_symbols' = <<>>
    /\ returned' = <<>>
    /\ responses' = <<>>
    /\ sleeps' = <<>>
    /\ pauses' = 0
    /\ queried' = {}
    /\ provided' = {}
    /\ retried' = {}
    /\ fileAtStart' = NoFile
    /\ write_result' = "none"
    /\ UNCHANGED <<backup_file, lvars, svars, ovars>>

\* the persisted file is deleted out of band, between two runs
DeleteFile ==
    /\ vpc = "idle"
    /\ Exists(backup_file)
    /\ backup_file' = NoFile
    /\ UNCHANGED <<symbols, vpc, idx, retries, curr_delay, valid_symbols, returned,
                   responses, sleeps, pauses, queried, provided, retried,
                   fileAtStart, write_result, lvars,
                   svars, ovars>>

InitLoad ==
    /\ csv \in CsvStates
    /\ lpc = "start"
    /\ clean_symbols = <<>>
    /\ symbols = <<>>
    /\ backup_file = NoFile
    /\ vpc = "idle"
    /\ idx = 0
    /\ retries = 0
    /\ curr_delay = delay
    /\ valid_symbols = <<>>
    /\ returned = <<>>
    /\ responses = <<>>
    /\ sleeps = <<>>
    /\ pauses = 0
    /\ queried = {}
    /\ provided = {}
    /\ retried = {}
    /\ fileAtStart = NoFile
    /\ write_result = "none"
    /\ spc = "idle"
    /\ sidx = 0
    /\ breakout_data = <<>>
    /\ top_breakouts = <<>>
    /\ hist_lens = <<>>
    /\ row_src = <<>>
    /\ opc = "idle"
    /\ oidx = 0
    /\ option_screener = <<>>

LoadNext == LoadFnoSymbols

SpecLoad == InitLoad /\ [][LoadNext]_vars

ValidateNext ==
    \/ ValidateStart
    \/ \E r \in Responses : ProviderCall(r)
    \/ NextSymbol
    \/ WriteAndReturn
    \/ Rerun
    \/ DeleteFile

SpecValidate == InitValidate /\ [][ValidateNext]_vars

(***************************************************************************)
(* get_breakout_screener and the top_breakouts view                        *)
(*                                                                         *)
(* Prices are integers, in paise.  The 20-period EMA of n closes is the    *)
(* exact fraction EMA20Num / EMA20Den with EMA20Den = 21^(n-1).            *)
(***************************************************************************)
\* bounds of the model
MaxRows == 2         \* rows of a fetched history (period="5d" gives at most 5)

\* head(10)
TopN == 10
\* ewm(span=20, adjust=False)
span == 20

\* the validated lists screened: none, one or two symbols
Universe == <<"TCS", "INFY">>
ScreenLists == {SubSeq(Universe, 1, n) : n \in 0..Len(Universe)}

ScreenPrices == {95000, 97500, 120000}
Bars == {b \in [Close : ScreenPrices, High : ScreenPrices, Low : ScreenPrices] :
            b.Low <= b.Close /\ b.Close <= b.High}
Histories == SeqsUpTo(Bars, MaxRows)
\* what ticker.history(period="5d") can do: raise, or return a history
FetchError == [raised |-> TRUE, hist |-> <<>>]
Fetched(hist) == [raised |-> FALSE, hist |-> hist]
Fetches == {FetchError} \cup {Fetched(h) : h \in Histories}

\* s.iloc[-k]
Iloc(s, k) == s[Len(s) - k + 1]
\* s.iloc[-k] raises IndexError
IlocRaises(s, k) == k > Len(s)

RECURSIVE Pow(_, _)
Pow(b, n) == IF n = 0 THEN 1 ELSE b * Pow(b, n - 1)

\* ewm(span=20, adjust=False).mean().iloc[-1], as a numerator over
\* (span+1)^(n-1): y[1] = x[1], y[t] = ((span-1) * y[t-1] + 2 * x[t]) / (span+1)
RECURSIVE EmaNum(_)
EmaNum(closes) ==
    IF Len(closes) = 1 THEN closes[1]
    ELSE LET n == Len(closes)
         IN (span - 1) * EmaNum(SubSeq(closes, 1, n - 1))
            + 2 * closes[n] * Pow(span + 1, n - 2)
EmaDen(closes) == Pow(span + 1, Len(closes) - 1)

Closes(hist) == [i \in 1..Len(hist) |-> hist[i].Close]

\* the labels of lines 117-121, each with its trailing " | "
LabelEMA == <<"A", "b", "o", "v", "e", " ", "2", "0", "E", "M", "A", " ", "|", " ">>
LabelHigh == <<"A", "b", "o", "v", "e", " ", "Y", "e", "s", "t", "e", "r", "d", "a", "y",
               " ", "H", "i", "g", "h", " ", "|", " ">>
LabelLow == <<"B", "e", "l", "o", "w", " ", "Y", "e", "s", "t", "e", "r", "d", "a", "y",
              " ", "L", "o", "w", " ", "|", " ">>

\* str.strip(chars): drop leading and trailing characters that are in chars
RECURSIVE LStrip(_, _)
LStrip(s, chars) ==
    IF s # <<>> /\ s[1] \in chars THEN LStrip(Tail(s), chars) ELSE s
RECURSIVE RStrip(_, _)
RStrip(s, chars) ==
    IF s # <<>> /\ s[Len(s)] \in chars THEN RStrip(SubSeq(s, 1, Len(s) - 1), chars)
    ELSE s
Strip(s, chars) == RStrip(LStrip(s, chars), chars)

\* sub in s, for strings
Contains(s, sub) ==
    \E i \in 1..(Len(s) - Len(sub) + 1) : SubSeq(s, i, i + Len(sub) - 1) = sub

\* variant: the three checks as an if / elif chain
SignalFrom_exclusive(above_ema, above_high, below_low) ==
    Strip(IF above_ema THEN LabelEMA
          ELSE IF above_high THEN LabelHigh
          ELSE IF below_low THEN LabelLow
          ELSE <<>>, {" ", "|"})
\* lines 115-121 and signal.strip(' | ') of line 128
SignalFrom(above_ema, above_high, below_low) ==
    Strip((IF above_ema THEN LabelEMA ELSE <<>>)
          \o (IF above_high THEN LabelHigh ELSE <<>>)
          \o (IF below_low THEN LabelLow ELSE <<>>), {" ", "|"})

\* lines 111-129: the row of a history of at least two rows
BreakoutRow(symbol, hist) ==
    LET current == Iloc(hist, 1).Close
        yesterday_high == Iloc(hist, 2).High
        yesterday_low == Iloc(hist, 2).Low
        num == EmaNum(Closes(hist))
        den == EmaDen(Closes(hist))
    IN [Stock |-> symbol,
        CurrentPrice |-> current,
        EMA20Num |-> num,
        EMA20Den |-> den,
        PrevHigh |-> yesterday_high,
        PrevLow |-> yesterday_low,
        Signal |-> SignalFrom(current * den > num,
                              current > yesterday_high,
                              current < yesterday_low)]

\* variant: a body that takes "yesterday" from the first row and does not fail on one row
ScreenSymbol_firstrow(symbol, fetch) ==
    IF fetch.raised \/ fetch.hist = <<>> THEN <<>>
    ELSE LET hist == fetch.hist
             current == Iloc(hist, 1).Close
         IN <<[Stock |-> symbol,
               CurrentPrice |-> current,
               EMA20Num |-> EmaNum(Closes(hist)),
               EMA20Den |-> EmaDen(Closes(hist)),
               PrevHigh |-> hist[1].High,
               PrevLow |-> hist[1].Low,
               Signal |-> SignalFrom(current * EmaDen(Closes(hist)) > EmaNum(Closes(hist)),
                                     current > hist[1].High,
                                     current < hist[1].Low)]>>
\* the body of the for loop (106-131): the rows it appends for one symbol
ScreenSymbol(symbol, fetch) ==
    IF fetch.raised THEN <<>>                       \* history() raised: caught at 130
    ELSE IF fetch.hist = <<>> THEN <<>>             \* hist.empty: continue
    ELSE IF IlocRaises(fetch.hist, 2) THEN <<>>     \* IndexError at 112: caught at 130
    ELSE <<BreakoutRow(symbol, fetch.hist)>>

\* one iteration of the for loop of get_breakout_screener: the provider answers fetch
FetchAndScreen(fetch) ==
    /\ spc = "fetch"
    /\ LET rows == ScreenSymbol(symbols[sidx], fetch)
       IN /\ breakout_data' = breakout_data \o rows
          /\ row_src' = IF rows = <<>> THEN row_src ELSE Append(row_src, sidx)
    /\ hist_lens' = Append(hist_lens, IF fetch.raised THEN -1 ELSE Len(fetch.hist))
    /\ sidx' = sidx + 1
    /\ spc' = IF sidx = Len(symbols) THEN "screened" ELSE "fetch"
    /\ UNCHANGED <<top_breakouts, lvars, vvars, ovars>>

\* pd.DataFrame(breakout_data, columns=...): each row gets its position as index
DataFrame(rows) ==
    [i \in 1..Len(rows) |->
        [Index |-> i - 1,
         Stock |-> rows[i].Stock,
         CurrentPrice |-> rows[i].CurrentPrice,
         EMA20Num |-> rows[i].EMA20Num,
         EMA20Den |-> rows[i].EMA20Den,
         PrevHigh |-> rows[i].PrevHigh,
         PrevLow |-> rows[i].PrevLow,
         Signal |-> rows[i].Signal]]

HasSignal(row) == row.Signal # <<>>

\* screener_df[screener_df['Signal'] != ""]: the rows with a signal, in order
RECURSIVE WithSignal(_)
WithSignal(df) ==
    IF df = <<>> THEN <<>>
    ELSE IF HasSignal(df[1]) THEN <<df[1]>> \o WithSignal(Tail(df))
    ELSE WithSignal(Tail(df))

Perms(n) == {p \in [1..n -> 1..n] : \A i, j \in 1..n : i # j => p[i] # p[j]}

\* sort_values(by="Current Price", ascending=False) with the default
\* kind="quicksort", which is not a stable sort: every order of the rows with
\* non-increasing price is a possible result
SortValuesDesc(df) ==
    {[i \in 1..Len(df) |-> df[p[i]]] : p \in
        {q \in Perms(Len(df)) :
            \A i \in 1..(Len(df) - 1) :
                df[q[i]].CurrentPrice >= df[q[i + 1]].CurrentPrice}}

\* df.head(n)
Head_(df, n) == SubSeq(df, 1, IF Len(df) < n THEN Len(df) ELSE n)

\* lines 190-192, after get_breakout_screener returned
TopBreakouts ==
    /\ spc = "screened"
    /\ \E sorted \in SortValuesDesc(WithSignal(DataFrame(breakout_data))) :
          top_breakouts' = Head_(sorted, TopN)
    /\ spc' = "top"
    /\ UNCHANGED <<sidx, breakout_data, hist_lens, row_src, lvars, vvars, ovars>>

InitScreen ==
    /\ symbols \in ScreenLists
    /\ spc = IF symbols = <<>> THEN "screened" ELSE "fetch"
    /\ sidx = 1
    /\ breakout_data = <<>>
    /\ top_breakouts = <<>>
    /\ hist_lens = <<>>
    /\ row_src = <<>>
    /\ opc = "idle"
    /\ oidx = 0
    /\ option_screener = <<>>
    /\ csv = [kind |-> "ok", column |-> <<>>]
    /\ lpc = "idle"
    /\ clean_symbols = <<>>
    /\ backup_file = NoFile
    /\ vpc = "idle"
    /\ idx = 0
    /\ retries = 0
    /\ curr_delay = delay
    /\ valid_symbols = <<>>
    /\ returned = <<>>
    /\ responses = <<>>
    /\ sleeps = <<>>
    /\ pauses = 0
    /\ queried = {}
    /\ provided = {}
    /\ retried = {}
    /\ fileAtStart = NoFile
    /\ write_result = "none"

ScreenNext ==
    \/ \E fetch \in Fetches : FetchAndScreen(fetch)
    \/ TopBreakouts

SpecScreen == InitScreen /\ [][ScreenNext]_vars

(***************************************************************************)
(* option_screener                                                         *)
(*                                                                         *)
(* Prices and stop-losses are in paise, strikes in rupees.                 *)
(***************************************************************************)
\* bound of the model
MaxTop == 2          \* rows of the top_breakouts view gone through

\* round(spot_price / 50) * 50
StrikeStep == 50
\* spot_price * 0.98, spot_price * 1.02
CallStopPct == 98
PutStopPct == 102
\* spot_price < 1000, in paise
WeeklyBelow == 100000

\* Python's round(): to the nearest integer, a tie to the even one; n >= 0, d > 0
\* variant: int(), which truncates
RoundHalfEven_floor(n, d) == n \div d
RoundHalfEven(n, d) ==
    LET q == n \div d
        r == n % d
    IN IF 2 * r < d THEN q
       ELSE IF 2 * r > d THEN q + 1
       ELSE IF q % 2 = 0 THEN q ELSE q + 1

\* round(spot_price / 50) * 50, in rupees
StrikePrice(spot) == RoundHalfEven(spot, StrikeStep * 100) * StrikeStep

TextAbove == <<"A", "b", "o", "v", "e">>

\* "CALL" if "Above" in row['Signal'] else "PUT"
OptionType(signal) == IF Contains(signal, TextAbove) THEN "CALL" ELSE "PUT"

\* round(spot_price * 0.98, 2) if CALL else round(spot_price * 1.02, 2)
StopLoss(spot, option_type) ==
    IF option_type = "CALL" THEN RoundHalfEven(CallStopPct * spot, 100)
    ELSE RoundHalfEven(PutStopPct * spot, 100)

ExpiryType(spot) == IF spot < WeeklyBelow THEN "Weekly (Intraday)" ELSE "Monthly"

\* lines 212-225: the suggestion for one row
Suggestion(row) ==
    LET spot_price == row.CurrentPrice
        option_type == OptionType(row.Signal)
    IN [Stock |-> row.Stock,
        OptionType |-> option_type,
        CurrentPrice |-> spot_price,
        BestStrikePrice |-> StrikePrice(spot_price),
        SuggestedStopLoss |-> StopLoss(spot_price, option_type),
        Expiry |-> ExpiryType(spot_price)]

\* one iteration of the loop over top_breakouts.iterrows() (211-225)
OptionRow ==
    /\ opc = "loop"
    /\ option_screener' = Append(option_screener, Suggestion(top_breakouts[oidx]))
    /\ oidx' = oidx + 1
    /\ opc' = IF oidx = Len(top_breakouts) THEN "done" ELSE "loop"
    /\ UNCHANGED <<symbols, spc, sidx, breakout_data, top_breakouts, hist_lens,
                   row_src, lvars, backup_file, vpc, idx, retries, curr_delay,
                   valid_symbols, returned, responses, sleeps, pauses, queried,
                   provided, retried, fileAtStart, write_result>>

\* the rows the loop is run on: rows get_breakout_screener builds, from a last
\* close at one of OptionPrices after one of PrevBars
OptionPrices == {12345, 92500, 97500, 97513, 99999, 100000, 150000}
FlatBar(p) == [Close |-> p, High |-> p, Low |-> p]
PrevBars == {FlatBar(96000), FlatBar(200000),
             [Close |-> 96000, High |-> 150000, Low |-> 96000]}
OptionStocks == <<"TCS", "INFY", "MM", "SBIN">>
OptionRows ==
    {DataFrame(<<BreakoutRow("", <<prev, FlatBar(p)>>)>>)[1] :
        prev \in PrevBars, p \in OptionPrices}
Placed(row, i) == [row EXCEPT !.Index = i - 1, !.Stock = OptionStocks[i]]

\* the views top_breakouts can be: rows with a signal, each from its own
\* position of screener_df, by price descending
TopViews ==
    {top \in UNION {[1..n -> {Placed(r, i) : r \in OptionRows, i \in 1..MaxTop}] :
                      n \in 0..MaxTop} :
        /\ \A i \in 1..Len(top) : HasSignal(top[i])
        /\ \A i, j \in 1..Len(top) :
              i < j => /\ top[i].Index # top[j].Index
                       /\ top[i].CurrentPrice >= top[j].CurrentPrice}

InitOptions ==
    /\ top_breakouts \in TopViews
    /\ opc = IF top_breakouts = <<>> THEN "done" ELSE "loop"
    /\ oidx = 1
    /\ option_screener = <<>>
    /\ symbols = <<>>
    /\ spc = "top"
    /\ sidx = 0
    /\ breakout_data = <<>>
    /\ hist_lens = <<>>
    /\ row_src = <<>>
    /\ csv = [kind |-> "ok", column |-> <<>>]
    /\ lpc = "idle"
    /\ clean_symbols = <<>>
    /\ backup_file = NoFile
    /\ vpc = "idle"
    /\ idx = 0
    /\ retries = 0
    /\ curr_delay = delay
    /\ valid_symbols = <<>>
    /\ returned = <<>>
    /\ responses = <<>>
    /\ sleeps = <<>>
    /\ pauses = 0
    /\ queried = {}
    /\ provided = {}
    /\ retried = {}
    /\ fileAtStart = NoFile
    /\ write_result = "none"

OptionsNext == OptionRow

SpecOptions == InitOptions /\ [][OptionsNext]_vars

(***************************************************************************)
(* Properties of validate_symbols                                          *)
(***************************************************************************)
Returned == vpc = "returned"

\* the pass computed its result afresh: the cached branch (56-61) did not return
FreshPass == Returned /\ fileAtStart.kind # "ok"

SymbolsValidated ==
    \A s \in Range(returned) : s \in Range(symbols) /\ s \in provided

\* C1 (as stated): whatever the persisted file holds, every returned symbol is
\* one of the candidates passed in and one the provider returned rows for
\* during this call.
C1_AnyFile == Returned => SymbolsValidated

\* C1 (amended): in every pass that does not return the persisted set, every
\* returned symbol is one of the candidates passed in and one the provider
\* returned rows for during this call.
C1_FreshPass == FreshPass => SymbolsValidated

C1_Witness ==
    /\ FreshPass
    /\ returned # <<>>
    /\ Range(symbols) \ Range(returned) # {}

\* C2: the provider is called at most max_retries times for a symbol (and the
\* pass therefore ends whatever the provider answers).
C2_BoundedCalls == Len(responses) <= max_retries

RateLimitedTwice == <<"rate_limit", "rate_limit", "rows">>

\* C3: with no persisted file, a symbol answered rate limit, rate limit, rows
\* is in the returned list, after exactly two backoff sleeps: the base delay,
\* then 1.5 times the base delay.
C3_RetryThenSuccess ==
    (Returned /\ fileAtStart = NoFile) =>
        \A r \in retried :
            r.responses = RateLimitedTwice =>
                /\ r.symbol \in Range(returned)
                /\ Len(r.sleeps) = 2
                /\ r.sleeps[1] = delay
                /\ 2 * r.sleeps[2] = 3 * r.sleeps[1]

C3_Witness ==
    /\ Returned
    /\ fileAtStart = NoFile
    /\ \E r \in retried : r.responses = RateLimitedTwice

CacheReturned ==
    /\ Range(returned) = Range(fileAtStart.rows)
    /\ queried = {}
    /\ backup_file = fileAtStart

\* C4 (as stated): whenever the persisted file exists at the start, the set in
\* it is returned with no provider call and the file is left as it was.
C4_FileExists == (Returned /\ Exists(fileAtStart)) => CacheReturned

\* the program never rewrites a persisted file that loads: only its deletion,
\* between two runs, changes it
LoadableFileKept ==
    (backup_file.kind = "ok" /\ backup_file' # backup_file)
        => (vpc = "idle" /\ vpc' = "idle" /\ backup_file' = NoFile)

\* C4 (amended): whenever the persisted file exists and loads at the start,
\* the set in it is returned with no provider call and the file is left as it
\* was; so once a pass has written the file, every later pass returns that
\* set until the file is deleted.
C4_FileLoads ==
    /\ []((Returned /\ fileAtStart.kind = "ok") => CacheReturned)
    /\ [][LoadableFileKept]_vars

C4_Witness ==
    /\ Returned
    /\ fileAtStart.kind = "ok"
    /\ Range(returned) # Range(symbols)
    /\ returned # <<>>

C6_NormalizedUnique ==
    lpc = "returned" =>
        /\ \A i \in 1..Len(clean_symbols) :
              /\ clean_symbols[i] # <<>>
              /\ Range(clean_symbols[i]) \subseteq Upper \cup Digits
        /\ \A i, j \in 1..Len(clean_symbols) :
              i # j => clean_symbols[i] # clean_symbols[j]

\* the part of C6 the code does keep: non-empty, letters and digits only
C6_AlnumOnly ==
    lpc = "returned" =>
        \A i \in 1..Len(clean_symbols) :
            /\ clean_symbols[i] # <<>>
            /\ \A k \in 1..Len(clean_symbols[i]) : Alnum(clean_symbols[i][k])

(***************************************************************************)
(* Properties of get_breakout_screener and top_breakouts                   *)
(***************************************************************************)
Screened == spc \in {"screened", "top"}

\* C7: a symbol whose fetched history has fewer than 2 rows gets no row, the
\* function still returns having gone through every symbol, and every row
\* comes from a history of at least 2 rows.
C7_ShortHistorySkipped ==
    /\ Len(row_src) = Len(breakout_data)
    /\ \A j \in 1..Len(breakout_data) :
          /\ breakout_data[j].Stock = symbols[row_src[j]]
          /\ hist_lens[row_src[j]] >= 2
    /\ \A i \in 1..Len(hist_lens) : hist_lens[i] < 2 => i \notin Range(row_src)
    /\ Screened => Len(hist_lens) = Len(symbols)
    /\ spc = "fetch" => Len(hist_lens) = sidx - 1

C7_Witness ==
    /\ Screened
    /\ \E i, k \in 1..Len(hist_lens) :
          /\ i < k
          /\ hist_lens[i] = 1
          /\ i \notin Range(row_src)
          /\ hist_lens[k] >= 2
          /\ k \in Range(row_src)

TextEMA == <<"A", "b", "o", "v", "e", " ", "2", "0", "E", "M", "A">>
TextHigh == <<"A", "b", "o", "v", "e", " ", "Y", "e", "s", "t", "e", "r", "d", "a", "y",
              " ", "H", "i", "g", "h">>
TextLow == <<"B", "e", "l", "o", "w", " ", "Y", "e", "s", "t", "e", "r", "d", "a", "y",
             " ", "L", "o", "w">>

AboveEMA(row) == row.CurrentPrice * row.EMA20Den > row.EMA20Num
AboveHigh(row) == row.CurrentPrice > row.PrevHigh
BelowLow(row) == row.CurrentPrice < row.PrevLow

SignalRows == WithSignal(DataFrame(breakout_data))

TopIsSortedSelection ==
    /\ \A i \in 1..Len(top_breakouts) :
          top_breakouts[i] \in Range(SignalRows)
    /\ Len(top_breakouts) <= TopN
    /\ Len(top_breakouts) = IF Len(SignalRows) < TopN THEN Len(SignalRows) ELSE TopN
    /\ \A i, j \in 1..Len(top_breakouts) :
          i < j => /\ top_breakouts[i].CurrentPrice >= top_breakouts[j].CurrentPrice
                   /\ top_breakouts[i].Index # top_breakouts[j].Index
    /\ \A r \in Range(SignalRows) \ Range(top_breakouts) :
          \A i \in 1..Len(top_breakouts) :
              r.CurrentPrice <= top_breakouts[i].CurrentPrice

TopIsStable ==
    \A i, j \in 1..Len(top_breakouts) :
        (i < j /\ top_breakouts[i].CurrentPrice = top_breakouts[j].CurrentPrice)
            => top_breakouts[i].Index < top_breakouts[j].Index

\* C9: the top view holds only rows with a signal, at most 10, by price
\* descending, no left-out row with a signal being dearer than a kept one, and
\* rows of equal price in their original order.
C9_TopSortedStable == spc = "top" => (TopIsSortedSelection /\ TopIsStable)

\* the part of C9 that does not rest on the order of equal prices
C9_TopSorted == spc = "top" => TopIsSortedSelection

(***************************************************************************)
(* Properties of option_screener                                           *)
(***************************************************************************)
Abs(x) == IF x < 0 THEN -x ELSE x

SuggestionFits(row, o) ==
    /\ o.Stock = row.Stock
    /\ o.CurrentPrice = row.CurrentPrice
    \* the strike: a multiple of 50 within 25 of the price, 975 giving 1000
    /\ o.BestStrikePrice % 50 = 0
    /\ Abs(o.BestStrikePrice * 100 - row.CurrentPrice) <= 2500
    /\ row.CurrentPrice = 97500 => o.BestStrikePrice = 1000
    \* the direction
    /\ o.OptionType \in {"CALL", "PUT"}
    /\ o.OptionType = "CALL" <=> Contains(row.Signal, TextAbove)
    \* the stop-loss: 0.98 or 1.02 of the price to the nearest paisa
    /\ o.OptionType = "CALL" =>
          /\ o.SuggestedStopLoss < row.CurrentPrice
          /\ Abs(100 * o.SuggestedStopLoss - 98 * row.CurrentPrice) <= 50
    /\ o.OptionType = "PUT" =>
          /\ o.SuggestedStopLoss > row.CurrentPrice
          /\ Abs(100 * o.SuggestedStopLoss - 102 * row.CurrentPrice) <= 50
    \* the expiry
    /\ o.Expiry \in {"Weekly (Intraday)", "Monthly"}
    /\ o.Expiry = "Weekly (Intraday)" <=> row.CurrentPrice < 100000

====
